---- MODULE Spec2Model ----
(***************************************************************************)
(* qemu-rs: typed configuration values rendered into emulator arguments,   *)
(* executable resolution, child process launch with a liveness poll, and   *)
(* the qemu-img wrapper.                                                    *)
(*                                                                         *)
(* Option<T> is modelled as a set with at most one element: None is {},    *)
(* Some(v) is {v}.  Strings are TLA+ strings; numbers are formatted with   *)
(* ToString, as format!("{}", n) does.                                      *)
(***************************************************************************)
EXTENDS Integers, Sequences, FiniteSets, TLC

VARIABLES
    call,       \* codec: the last constructor call and its arguments
    value,      \* codec: the configuration value under construction
    rendered,   \* codec: the tokens produced by the last rendering
    env,        \* builder: file system and PATH seen by Builder::new
    builder,    \* builder: result of Builder::new
    launch,     \* builder: outcome of Builder::start
    machine,    \* machine: the Machine object
    pc,         \* machine: position inside Machine::start
    cmd,        \* machine: argv accumulated on the Command
    child,      \* machine: the spawned child process
    status,     \* machine: value returned by Machine::start
    hist,       \* machine: what start did (spawns, sleeps, polls, reads)
    image,      \* image: the Image object
    tool,       \* image: the last qemu-img invocation
    written     \* image: value returned by Image::write

vars == <<call, value, rendered, env, builder, launch, machine, pc, cmd, child,
          status, hist, image, tool, written>>

codecVars == <<call, value, rendered>>
builderVars == <<env, builder, launch>>
machineVars == <<machine, pc, cmd, child, status, hist>>
imageVars == <<image, tool, written>>

\* the components do not share state: a step of one leaves the others alone
exceptCodec == <<builderVars, machineVars, imageVars>>
exceptBuilder == <<codecVars, machineVars, imageVars>>
exceptMachine == <<codecVars, builderVars, imageVars>>
exceptImage == <<codecVars, builderVars, machineVars>>

None == {}
Some(v) == {v}
IsSome(o) == o # {}
IsNone(o) == o = {}
Unwrap(o) == CHOOSE v \in o : TRUE

Option(S) == {None} \cup {Some(v) : v \in S}

RECURSIVE Concat(_)
Concat(s) == IF s = <<>> THEN "" ELSE Head(s) \o Concat(Tail(s))

----------------------------------------------------------------------------
(* Argument codec: Processors (src/src/machine.rs)                         *)

NoValue == [type |-> "None"]
NoTokens == <<>>

\* inputs
CpuCounts == {0, 1, 2, 255}
TopologyCounts == {1, 4}
MaxCpuHints == {1, 255}

ProcessorsNew(n) ==
    [type |-> "Processors", ncpus |-> Some(n), cores |-> None, threads |-> None,
     sockets |-> None, maxcpus |-> None]

ProcessorsWithAnyUnset(cores, threads, sockets) ==
    IF IsNone(cores) \/ IsNone(threads) \/ IsNone(sockets)
    THEN [type |-> "Err", kind |-> "InvalidConfig",
          msg |-> "cpu cores, threads, or sockets must be defined"]
    ELSE [type |-> "Processors", ncpus |-> None, cores |-> cores,
          threads |-> threads, sockets |-> sockets, maxcpus |-> None]

ProcessorsWith(cores, threads, sockets) ==
    IF IsNone(cores) /\ IsNone(threads) /\ IsNone(sockets)
    THEN [type |-> "Err", kind |-> "InvalidConfig",
          msg |-> "cpu cores, threads, or sockets must be defined"]
    ELSE [type |-> "Processors", ncpus |-> None, cores |-> cores,
          threads |-> threads, sockets |-> sockets, maxcpus |-> None]

SetMaxCpus(p, n) == [p EXCEPT !.maxcpus = Some(n)]

\* the HashMap filled by into_arguments: key -> formatted value
ProcessorsOpts(p) ==
    LET base == IF IsSome(p.ncpus)
                THEN {<<"cpus", ToString(Unwrap(p.ncpus))>>}
                ELSE (IF IsSome(p.cores)
                      THEN {<<"cores", ToString(Unwrap(p.cores))>>} ELSE {})
                     \cup (IF IsSome(p.threads)
                      THEN {<<"threads", ToString(Unwrap(p.threads))>>} ELSE {})
                     \cup (IF IsSome(p.sockets)
                      THEN {<<"sockets", ToString(Unwrap(p.sockets))>>} ELSE {})
    IN  base \cup (IF IsSome(p.maxcpus)
                   THEN {<<"maxcpus", ToString(Unwrap(p.maxcpus))>>} ELSE {})

\* HashMap::into_iter visits the entries in an unspecified order (the
\* default hasher is randomly seeded): every ordering can be produced.
IterOrders(S) ==
    {o \in [1..Cardinality(S) -> S] : \A i, j \in 1..Cardinality(S) : o[i] = o[j] => i = j}

RECURSIVE SettingsNoPop(_)
SettingsNoPop(o) ==
    IF o = <<>> THEN ""
    ELSE Head(o)[1] \o "=" \o Head(o)[2] \o "," \o SettingsNoPop(Tail(o))

\* map(format!("{}={},")) folded with push_str, then settings.pop() removes
\* the trailing comma (pop on the empty string leaves it empty)
RECURSIVE Settings(_)
Settings(o) ==
    IF o = <<>> THEN ""
    ELSE IF Len(o) = 1 THEN Head(o)[1] \o "=" \o Head(o)[2]
    ELSE Head(o)[1] \o "=" \o Head(o)[2] \o "," \o Settings(Tail(o))

ProcessorsIntoArguments(order) == <<"-smp", Settings(order)>>

----------------------------------------------------------------------------
(* Argument codec: Memory (src/src/machine.rs)                             *)

MemorySizes == {0, 128, 512, 1024}
MemorySlots == {0, 3}
MemoryMax == {0, 4096}

MemoryNew(size) ==
    [type |-> "Memory", size |-> size, slots |-> None, maxmem |-> None]

MemoryWith(size, slots, maxmem) ==
    [type |-> "Memory", size |-> size, slots |-> Some(slots), maxmem |-> Some(maxmem)]

MemoryIntoArgumentsSwapped(m) ==
    <<"-m",
      "size=" \o ToString(m.size) \o
        (IF IsSome(m.slots) /\ IsSome(m.maxmem)
         THEN ",maxmem=" \o ToString(Unwrap(m.maxmem))
              \o ",slots=" \o ToString(Unwrap(m.slots))
         ELSE "")>>

MemoryIntoArguments(m) ==
    <<"-m",
      "size=" \o ToString(m.size) \o
        (IF IsSome(m.slots) /\ IsSome(m.maxmem)
         THEN ",slots=" \o ToString(Unwrap(m.slots))
              \o ",maxmem=" \o ToString(Unwrap(m.maxmem))
         ELSE "")>>

----------------------------------------------------------------------------
(* Argument codec: enumerations (display.rs, image/mod.rs, machine/mod.rs) *)

\* {:?} of a derive(Debug) unit variant prints the variant's identifier;
\* identifiers are kept as character sequences so that to_lowercase acts
\* on them character by character.
Formats == {"Raw", "QCow", "QCow2", "Vmdk", "Vdi", "Vhdx", "Vpc"}
FormatDebug ==
    [Raw |-> <<"R", "a", "w">>, QCow |-> <<"Q", "C", "o", "w">>,
     QCow2 |-> <<"Q", "C", "o", "w", "2">>, Vmdk |-> <<"V", "m", "d", "k">>,
     Vdi |-> <<"V", "d", "i">>, Vhdx |-> <<"V", "h", "d", "x">>,
     Vpc |-> <<"V", "p", "c">>]

DriveMedias == {"CDRom", "Disk"}
DriveMediaDebug ==
    [CDRom |-> <<"C", "D", "R", "o", "m">>, Disk |-> <<"D", "i", "s", "k">>]

UpperToLower ==
    [C |-> "c", D |-> "d", Q |-> "q", R |-> "r", V |-> "v"]

LowerChar(c) == IF c \in DOMAIN UpperToLower THEN UpperToLower[c] ELSE c

ToLowercaseIdentity(chars) == Concat(chars)

\* str::to_lowercase
ToLowercase(chars) == Concat([i \in 1..Len(chars) |-> LowerChar(chars[i])])

FormatToString(f) == ToLowercase(FormatDebug[f])

DriveMediaToString(m) == ToLowercase(DriveMediaDebug[m])

VgaKinds == {"None", "Cirrus", "Std", "VMWare", "Qxl", "Tcx", "Cg3", "Virtio"}

VgaIntoArguments(v) ==
    <<"-vga",
      CASE v = "None" -> "none"
        [] v = "Cirrus" -> "cirrus"
        [] v = "Std" -> "std"
        [] v = "VMWare" -> "vmware"
        [] v = "Qxl" -> "qxl"
        [] v = "Tcx" -> "tcx"
        [] v = "Cg3" -> "cg3"
        [] v = "Virtio" -> "virtio">>

VncHosts == {"127.0.0.1"}
VncDisplays == {0, 1}
VncWsPorts == {5700}

VncNew(host, display) ==
    [host |-> host, display |-> display, ws_port |-> None, password |-> FALSE]

VncWithWebsocket(host, display, ws_port) ==
    [host |-> host, display |-> display, ws_port |-> Some(ws_port), password |-> FALSE]

VncUsePassword(vnc, passwd) == [vnc EXCEPT !.password = passwd]

DisplayIntoArguments(d) ==
    <<"-display",
      CASE d.kind = "None" -> "none"
        [] d.kind = "Sdl" -> "sdl"
        [] d.kind = "Vnc" ->
             "vnc=" \o d.vnc.host \o ":" \o ToString(d.vnc.display)
             \o (IF IsSome(d.vnc.ws_port)
                 THEN ",websocket=" \o ToString(Unwrap(d.vnc.ws_port)) ELSE "")
             \o (IF d.vnc.password = TRUE THEN ",password" ELSE "")>>

----------------------------------------------------------------------------
(* Codec state machine: construct a value, then render it                  *)

NoCall == [op |-> "none"]

CodecInit == call = NoCall /\ value = NoValue /\ rendered = NoTokens

NewProcessors ==
    /\ \E n \in CpuCounts :
          /\ call' = [op |-> "Processors::new", n |-> n]
          /\ value' = ProcessorsNew(n)
    /\ rendered' = NoTokens
    /\ UNCHANGED exceptCodec

WithProcessors ==
    /\ \E c \in Option(TopologyCounts), t \in Option(TopologyCounts),
          s \in Option(TopologyCounts) :
            /\ call' = [op |-> "Processors::with", cores |-> c, threads |-> t,
                        sockets |-> s]
            /\ value' = ProcessorsWith(c, t, s)
    /\ rendered' = NoTokens
    /\ UNCHANGED exceptCodec

MaxCpusProcessors ==
    /\ value.type = "Processors"
    /\ \E n \in MaxCpuHints :
          /\ call' = [op |-> "Processors::set_max_cpus", n |-> n]
          /\ value' = SetMaxCpus(value, n)
    /\ rendered' = NoTokens
    /\ UNCHANGED exceptCodec

RenderProcessors ==
    /\ value.type = "Processors"
    /\ \E order \in IterOrders(ProcessorsOpts(value)) :
          rendered' = ProcessorsIntoArguments(order)
    /\ UNCHANGED <<call, value>>
    /\ UNCHANGED exceptCodec

NewMemory ==
    /\ \E size \in MemorySizes :
          /\ call' = [op |-> "Memory::new", size |-> size]
          /\ value' = MemoryNew(size)
    /\ rendered' = NoTokens
    /\ UNCHANGED exceptCodec

WithMemory ==
    /\ \E size \in MemorySizes, slots \in MemorySlots, maxmem \in MemoryMax :
          /\ call' = [op |-> "Memory::with", size |-> size, slots |-> slots,
                      maxmem |-> maxmem]
          /\ value' = MemoryWith(size, slots, maxmem)
    /\ rendered' = NoTokens
    /\ UNCHANGED exceptCodec

RenderMemory ==
    /\ value.type = "Memory"
    /\ rendered' = MemoryIntoArguments(value)
    /\ UNCHANGED <<call, value>>
    /\ UNCHANGED exceptCodec

RenderFormat ==
    /\ \E f \in Formats :
          /\ call' = [op |-> "Format", v |-> f]
          /\ value' = [type |-> "Format", v |-> f]
          /\ rendered' = <<FormatToString(f)>>
    /\ UNCHANGED exceptCodec

RenderDriveMedia ==
    /\ \E m \in DriveMedias :
          /\ call' = [op |-> "DriveMedia", v |-> m]
          /\ value' = [type |-> "DriveMedia", v |-> m]
          /\ rendered' = <<DriveMediaToString(m)>>
    /\ UNCHANGED exceptCodec

RenderVga ==
    /\ \E v \in VgaKinds :
          /\ call' = [op |-> "Vga", v |-> v]
          /\ value' = [type |-> "Vga", v |-> v]
          /\ rendered' = VgaIntoArguments(v)
    /\ UNCHANGED exceptCodec

Displays ==
    {[kind |-> "None"], [kind |-> "Sdl"]}
    \cup {[kind |-> "Vnc", vnc |-> VncUsePassword(v, p)] :
            v \in {VncNew(h, d) : h \in VncHosts, d \in VncDisplays}
                  \cup {VncWithWebsocket(h, d, w) :
                          h \in VncHosts, d \in VncDisplays, w \in VncWsPorts},
            p \in BOOLEAN}

RenderDisplay ==
    /\ \E d \in Displays :
          /\ call' = [op |-> "Display", v |-> d]
          /\ value' = [type |-> "Display", v |-> d]
          /\ rendered' = DisplayIntoArguments(d)
    /\ UNCHANGED exceptCodec

CodecNext ==
    \/ NewProcessors
    \/ WithProcessors
    \/ MaxCpusProcessors
    \/ RenderProcessors
    \/ NewMemory
    \/ WithMemory
    \/ RenderMemory
    \/ RenderFormat
    \/ RenderDriveMedia
    \/ RenderVga
    \/ RenderDisplay

----------------------------------------------------------------------------
(* Builder and executable resolution (src/src/lib.rs)                      *)

MaxTokens == 4

\* executable references handed to Builder::new, and PATH directories
Refs == {"qemu-system-x86_64", "kvm"}
Dirs == {"/usr/bin", "/opt/bin"}

\* PathBuf::join of a directory and a relative reference
Join(dir, exec) == dir \o "/" \o exec

Paths == Refs \cup {Join(d, e) : d \in Dirs, e \in Refs}

\* what a path names in the file system
Kinds == {"absent", "file", "dir"}

\* env::var_os("PATH") followed by env::split_paths: None when unset,
\* otherwise the listed directories in order
PathVars ==
    {None, Some(<<>>)} \cup {Some(<<d>>) : d \in Dirs}
    \cup {Some(<<d, e>>) : d \in Dirs, e \in Dirs}

\* Path::exists: true for files and for directories
Exists(fs, p) == fs[p] # "absent"

\* Path::is_file
IsFile(fs, p) == fs[p] = "file"

\* the for loop over split_paths: first joined candidate that is a file
RECURSIVE SearchPath(_, _, _)
SearchPath(fs, dirs, exec) ==
    IF dirs = <<>> THEN None
    ELSE IF IsFile(fs, Join(Head(dirs), exec)) THEN Some(Join(Head(dirs), exec))
    ELSE SearchPath(fs, Tail(dirs), exec)

NoBuilder == [type |-> "None"]

BuilderNewResult(e, exec) ==
    IF Exists(e.fs, exec)
    THEN [type |-> "Builder", executable |-> exec, params |-> <<>>,
          exec |-> exec, moved |-> FALSE]
    ELSE LET path == IF IsSome(e.path) THEN SearchPath(e.fs, Unwrap(e.path), exec)
                     ELSE None
         IN  IF IsSome(path)
             THEN [type |-> "Builder", executable |-> Unwrap(path), params |-> <<>>,
                   exec |-> exec, moved |-> FALSE]
             ELSE [type |-> "Err", kind |-> "ExecutableNotFound", exec |-> exec]

\* configuration fragments a caller accumulates (examples/basic.rs)
Fragments == {MemoryIntoArguments(MemoryNew(128)), VgaIntoArguments("Std")}

BuilderInit ==
    /\ env \in [fs : [Paths -> Kinds], path : PathVars]
    /\ builder = NoBuilder
    /\ launch = [type |-> "None"]

BuilderNew ==
    /\ builder = NoBuilder
    /\ \E exec \in Refs : builder' = BuilderNewResult(env, exec)
    /\ UNCHANGED <<env, launch>>
    /\ UNCHANGED exceptBuilder

\* the fragment's tokens are appended to the accumulated sequence
BuilderSet ==
    /\ builder.type = "Builder"
    /\ ~builder.moved
    /\ Len(builder.params) < MaxTokens
    /\ \E f \in Fragments : builder' = [builder EXCEPT !.params = @ \o f]
    /\ UNCHANGED <<env, launch>>
    /\ UNCHANGED exceptBuilder

\* Command::new(self.executable).spawn(): the argv handed to the OS, which
\* runs the program or refuses; only a regular file can be run
BuilderStart ==
    /\ builder.type = "Builder"
    /\ ~builder.moved
    /\ \E ok \in BOOLEAN :
          /\ ok => IsFile(env.fs, builder.executable)
          /\ launch' = [type |-> IF ok THEN "Instance" ELSE "Err",
                        kind |-> IF ok THEN "Ok" ELSE "Io",
                        argv |-> <<builder.executable>>]
    /\ builder' = [builder EXCEPT !.moved = TRUE]
    /\ UNCHANGED env
    /\ UNCHANGED exceptBuilder

BuilderNext ==
    \/ BuilderNew
    \/ BuilderSet
    \/ BuilderStart

----------------------------------------------------------------------------
(* Machine (src/src/machine/mod.rs)                                        *)

MaxDrives == 1
MaxInterfaces == 2
MaxStarts == 2

SleepMillis == 500

CpuSetupNew(cpus) ==
    [cpus |-> Some(cpus), sockets |-> None, cores_per_sockets |-> None,
     threads_per_cores |-> None]

CpuSetupCustom(sockets, cores, threads) ==
    [cpus |-> None, sockets |-> Some(sockets), cores_per_sockets |-> Some(cores),
     threads_per_cores |-> Some(threads)]

MemorySetupNew(size) == [size |-> size, slots |-> None, maxmem |-> None]

MemorySetupHotpluggable(size, slots, maxmem) ==
    [size |-> size, slots |-> Some(slots), maxmem |-> Some(maxmem)]

DriveNew(media, file) == [media |-> media, file |-> file]

TapInterfaceNew(name) == [name |-> name, custom_mac |-> None]

TapInterfaceWithMacAddr(name, mac) == [name |-> name, custom_mac |-> Some(mac)]

MachineNew(cpu, mem, use_kvm) ==
    [kvm |-> use_kvm, cpu |-> cpu, mem |-> mem, drives |-> <<>>, interfaces |-> <<>>]

\* inputs
CpuSetups ==
    {CpuSetupNew(n) : n \in {0, 1, 2}}
    \cup {CpuSetupCustom(s, c, t) : s \in {0, 1}, c \in {0, 4}, t \in {0, 2}}
MemorySetups ==
    {MemorySetupNew(n) : n \in {0, 512}}
    \cup {MemorySetupHotpluggable(n, s, m) : n \in {0, 1024}, s \in {0, 3}, m \in {0, 4096}}
DriveInputs == {DriveNew("CDRom", "cd.iso"), DriveNew("Disk", "hd.img")}
InterfaceInputs ==
    {TapInterfaceNew("tamer0"),
     TapInterfaceWithMacAddr("tamer1", "52:54:01:02:03:04"),
     TapInterfaceWithMacAddr("tamer2", "")}

\* a stage of argument assembly: the tokens added so far and, when a guard
\* failed, the InvalidArgument message start returns with
Args(a) == [args |-> a, err |-> None]
Invalid(a, msg) == [args |-> a, err |-> Some(msg)]

KvmArgs(m) == IF m.kvm THEN <<"-enable-kvm">> ELSE <<>>

CpuArgsNoCoresGuard(cpu) ==
    IF IsSome(cpu.cpus)
    THEN IF Unwrap(cpu.cpus) > 0
         THEN Args(<<"-smp", ToString(Unwrap(cpu.cpus))>>)
         ELSE Invalid(<<>>, "Invalid number of CPUs (must be greater than 0)")
    ELSE IF IsSome(cpu.sockets) /\ IsSome(cpu.cores_per_sockets)
            /\ IsSome(cpu.threads_per_cores)
    THEN LET sockets == Unwrap(cpu.sockets)
             cores == Unwrap(cpu.cores_per_sockets)
             threads == Unwrap(cpu.threads_per_cores)
         IN  IF sockets > 0 /\ threads > 0
             THEN Args(<<"-smp", "cores=" \o ToString(cores) \o ",threads="
                                 \o ToString(threads) \o ",sockets="
                                 \o ToString(sockets)>>)
             ELSE Invalid(<<>>, "Invalid CPU parameters (sockets, cores, threads) (must be greater than 0)")
    ELSE Args(<<>>)

CpuArgs(cpu) ==
    IF IsSome(cpu.cpus)
    THEN IF Unwrap(cpu.cpus) > 0
         THEN Args(<<"-smp", ToString(Unwrap(cpu.cpus))>>)
         ELSE Invalid(<<>>, "Invalid number of CPUs (must be greater than 0)")
    ELSE IF IsSome(cpu.sockets) /\ IsSome(cpu.cores_per_sockets)
            /\ IsSome(cpu.threads_per_cores)
    THEN LET sockets == Unwrap(cpu.sockets)
             cores == Unwrap(cpu.cores_per_sockets)
             threads == Unwrap(cpu.threads_per_cores)
         IN  IF sockets > 0 /\ cores > 0 /\ threads > 0
             THEN Args(<<"-smp", "cores=" \o ToString(cores) \o ",threads="
                                 \o ToString(threads) \o ",sockets="
                                 \o ToString(sockets)>>)
             ELSE Invalid(<<>>, "Invalid CPU parameters (sockets, cores, threads) (must be greater than 0)")
    ELSE Args(<<>>)

MemArgs(mem) ==
    IF ~(mem.size > 0)
    THEN Invalid(<<>>, "Invalid memory size (must be greater than 0)")
    ELSE IF IsSome(mem.slots) /\ IsSome(mem.maxmem)
    THEN LET slots == Unwrap(mem.slots)
             maxmem == Unwrap(mem.maxmem)
         IN  IF ~(slots > 0)
             THEN Invalid(<<>>, "Invalid memory slots number (must be greater than 0)")
             ELSE IF ~(maxmem > 0)
             THEN Invalid(<<>>, "Invalid maximum memory amout (must be greater than 0)")
             ELSE Args(<<"-m", ToString(mem.size) \o ",slots=" \o ToString(slots)
                                \o ",maxmem=" \o ToString(maxmem)>>)
    ELSE Args(<<"-m", ToString(mem.size)>>)

IfaceArgsDeviceFirst(iface) ==
    LET dev == "virtio-net,netdev=" \o iface.name
        netdev == "tap,id=" \o iface.name \o ",ifname=" \o iface.name
    IN  IF IsSome(iface.custom_mac)
        THEN IF Len(Unwrap(iface.custom_mac)) > 0
             THEN Args(<<"-device", dev \o ",mac=" \o Unwrap(iface.custom_mac),
                         "-netdev", netdev>>)
             ELSE Invalid(<<>>, "Invalid custom MAC address")
        ELSE Args(<<"-device", dev, "-netdev", netdev>>)

\* one iteration of the interface loop
IfaceArgs(iface) ==
    LET dev == "virtio-net,netdev=" \o iface.name
        netdev == "tap,id=" \o iface.name \o ",ifname=" \o iface.name
    IN  IF IsSome(iface.custom_mac)
        THEN IF Len(Unwrap(iface.custom_mac)) > 0
             THEN Args(<<"-netdev", netdev, "-device",
                         dev \o ",mac=" \o Unwrap(iface.custom_mac)>>)
             ELSE Invalid(<<>>, "Invalid custom MAC address")
        ELSE Args(<<"-netdev", netdev, "-device", dev>>)

\* the interface loop: tokens of the interfaces in order, stopping at the
\* first invalid one
RECURSIVE InterfacesArgs(_)
InterfacesArgs(ifaces) ==
    IF ifaces = <<>> THEN Args(<<>>)
    ELSE LET first == IfaceArgs(Head(ifaces))
         IN  IF IsSome(first.err) THEN first
             ELSE LET rest == InterfacesArgs(Tail(ifaces))
                  IN  [args |-> first.args \o rest.args, err |-> rest.err]

\* one stage after another; the first failed guard returns
Then(a, b) ==
    IF IsSome(a.err) THEN a ELSE [args |-> a.args \o b.args, err |-> b.err]

\* Machine::start up to the spawn: the argv put on the Command
Assemble(m) ==
    Then(Then(Then(Args(KvmArgs(m)), CpuArgs(m.cpu)), MemArgs(m.mem)),
         InterfacesArgs(m.interfaces))

\* outcomes of the child and of the OS
ExitCodes == {0, 1}
StderrTexts == {"", "qemu: could not open tap"}

NoChild == [state |-> "none"]
NoStatus == [type |-> "None"]
NoHist == [starts |-> 0, spawns |-> 0, refused |-> 0, slept |-> 0, polls |-> 0,
           reads |-> 0, seen |-> "none"]

\* what child.try_wait() reports: an OS error, Ok(None) while the child
\* runs, Ok(Some(status)) once it exited
TryWait(c, oserr) ==
    IF oserr THEN "error"
    ELSE IF c.state = "running" THEN "running" ELSE "exited"

AfterPollExitZeroIsSuccess(seen, c) ==
    IF seen = "running" \/ (seen = "exited" /\ c.code = 0)
    THEN [pc |-> "done", status |-> [type |-> "Ok", running |-> TRUE]]
    ELSE IF seen = "exited" THEN [pc |-> "read", status |-> NoStatus]
    ELSE [pc |-> "done", status |-> [type |-> "Err", kind |-> "Io"]]

\* the match on try_wait's result
AfterPoll(seen, c) ==
    IF seen = "running"
    THEN [pc |-> "done", status |-> [type |-> "Ok", running |-> TRUE]]
    ELSE IF seen = "exited" THEN [pc |-> "read", status |-> NoStatus]
    ELSE [pc |-> "done", status |-> [type |-> "Err", kind |-> "Io"]]

\* the match on read_to_string's result
AfterRead(ok, out) ==
    IF ok THEN [type |-> "Err", kind |-> "Runtime", msg |-> "QEMU exited: " \o out]
    ELSE [type |-> "Err", kind |-> "Runtime", msg |-> "QEMU exited unexpectedly"]

MachineInit ==
    /\ machine \in {MachineNew(c, m, k) : c \in CpuSetups, m \in MemorySetups,
                                           k \in BOOLEAN}
    /\ pc = "idle"
    /\ cmd = <<>>
    /\ child = NoChild
    /\ status = NoStatus
    /\ hist = NoHist

Returned == pc \in {"idle", "done"}

AddDrive ==
    /\ Returned
    /\ Len(machine.drives) < MaxDrives
    /\ \E d \in DriveInputs : machine' = [machine EXCEPT !.drives = Append(@, d)]
    /\ UNCHANGED <<pc, cmd, child, status, hist>>
    /\ UNCHANGED exceptMachine

AddInterface ==
    /\ Returned
    /\ Len(machine.interfaces) < MaxInterfaces
    /\ \E i \in InterfaceInputs :
          machine' = [machine EXCEPT !.interfaces = Append(@, i)]
    /\ UNCHANGED <<pc, cmd, child, status, hist>>
    /\ UNCHANGED exceptMachine

StartAssembleSpawnFirst ==
    /\ Returned
    /\ hist.starts < MaxStarts
    /\ LET a == Assemble(machine)
       IN  /\ cmd' = <<"qemu-system-x86_64">> \o a.args
           /\ IF IsSome(a.err)
              THEN /\ pc' = "done"
                   /\ status' = [type |-> "Err", kind |-> "InvalidArgument",
                                 msg |-> Unwrap(a.err)]
                   /\ child' = [state |-> "running",
                                argv |-> <<"qemu-system-x86_64">> \o a.args]
                   /\ hist' = [NoHist EXCEPT !.starts = hist.starts + 1,
                                             !.spawns = 1]
              ELSE /\ pc' = "spawn"
                   /\ status' = NoStatus
                   /\ child' = NoChild
                   /\ hist' = [NoHist EXCEPT !.starts = hist.starts + 1]
    /\ UNCHANGED machine
    /\ UNCHANGED exceptMachine

\* start, from its entry to the spawn call or to the first failed guard
StartAssemble ==
    /\ Returned
    /\ hist.starts < MaxStarts
    /\ LET a == Assemble(machine)
       IN  /\ cmd' = <<"qemu-system-x86_64">> \o a.args
           /\ IF IsSome(a.err)
              THEN /\ pc' = "done"
                   /\ status' = [type |-> "Err", kind |-> "InvalidArgument",
                                 msg |-> Unwrap(a.err)]
              ELSE /\ pc' = "spawn"
                   /\ status' = NoStatus
    /\ child' = NoChild
    /\ hist' = [NoHist EXCEPT !.starts = hist.starts + 1]
    /\ UNCHANGED machine
    /\ UNCHANGED exceptMachine

\* cmd.spawn()
StartSpawn ==
    /\ pc = "spawn"
    /\ \E ok \in BOOLEAN :
          IF ok
          THEN /\ child' = [state |-> "running", argv |-> cmd]
               /\ hist' = [hist EXCEPT !.spawns = @ + 1]
               /\ pc' = "sleep"
               /\ UNCHANGED status
          ELSE /\ status' = [type |-> "Err", kind |-> "Io"]
               /\ hist' = [hist EXCEPT !.refused = @ + 1]
               /\ pc' = "done"
               /\ UNCHANGED child
    /\ UNCHANGED <<machine, cmd>>
    /\ UNCHANGED exceptMachine

\* the emulator exits on its own, at any time after it was spawned
ChildExit ==
    /\ child.state = "running"
    /\ \E code \in ExitCodes, text \in StderrTexts :
          child' = [state |-> "exited", argv |-> child.argv, code |-> code,
                    stderr |-> text]
    /\ UNCHANGED <<machine, pc, cmd, status, hist>>
    /\ UNCHANGED exceptMachine

\* thread::sleep(Duration::from_millis(500))
StartSleep ==
    /\ pc = "sleep"
    /\ hist' = [hist EXCEPT !.slept = @ + SleepMillis]
    /\ pc' = "poll"
    /\ UNCHANGED <<machine, cmd, child, status>>
    /\ UNCHANGED exceptMachine

\* child.try_wait()
StartPoll ==
    /\ pc = "poll"
    /\ \E oserr \in BOOLEAN :
          LET seen == TryWait(child, oserr)
              next == AfterPoll(seen, child)
          IN  /\ hist' = [hist EXCEPT !.polls = @ + 1, !.seen = seen]
              /\ pc' = next.pc
              /\ status' = next.status
    /\ UNCHANGED <<machine, cmd, child>>
    /\ UNCHANGED exceptMachine

\* child.stderr.unwrap().read_to_string(&mut out)
StartReadStderr ==
    /\ pc = "read"
    /\ \E ok \in BOOLEAN : status' = AfterRead(ok, child.stderr)
    /\ hist' = [hist EXCEPT !.reads = @ + 1]
    /\ pc' = "done"
    /\ UNCHANGED <<machine, cmd, child>>
    /\ UNCHANGED exceptMachine

MachineNext ==
    \/ AddDrive
    \/ AddInterface
    \/ StartAssemble
    \/ StartSpawn
    \/ ChildExit
    \/ StartSleep
    \/ StartPoll
    \/ StartReadStderr

----------------------------------------------------------------------------
(* Image (src/src/image/mod.rs)                                            *)

ImagePaths == {"test.raw", "disk.img"}
ImageSizes == {0, 536870912}

\* what the tool printed on standard output: text, or bytes that are not
\* valid UTF-8
StdoutTexts == {"", "qemu-img: test.raw: Could not create file"}
Stdouts ==
    {[utf8 |-> TRUE, text |-> t] : t \in StdoutTexts} \cup {[utf8 |-> FALSE]}

ImageNew(path, format, size) == [path |-> path, format |-> format, size |-> size]

\* the argv of the Command built by write
WriteArgs(img) ==
    <<"qemu-img", "create", "-f", FormatToString(img.format), img.path,
      ToString(img.size)>>

\* the match on Command::output(): run |-> FALSE is the OS failing to run
\* the tool; String::from_utf8(..).expect(..) panics on invalid UTF-8
WriteResult(out) ==
    IF ~out.run THEN [type |-> "Err", kind |-> "Io"]
    ELSE IF out.code = 0 THEN [type |-> "Ok"]
    ELSE IF out.stdout.utf8
    THEN [type |-> "Err", kind |-> "Other", msg |-> out.stdout.text]
    ELSE [type |-> "Panic", msg |-> "Invalid UTF-8 returned by qemu-img"]

ToolOutcomes ==
    {[run |-> FALSE]}
    \cup {[run |-> TRUE, code |-> c, stdout |-> o] : c \in ExitCodes, o \in Stdouts}

NoImage == [path |-> "", format |-> "Raw", size |-> 0]
NoTool == [argv |-> <<>>, exited |-> FALSE]
NoWritten == [type |-> "None"]

ImageInit ==
    /\ image \in {ImageNew(p, f, n) : p \in ImagePaths, f \in Formats, n \in ImageSizes}
    /\ tool = NoTool
    /\ written = NoWritten

\* Image::write: Command::output() returns once the tool has exited
ImageWrite ==
    /\ written.type # "Panic"
    /\ \E out \in ToolOutcomes :
          /\ tool' = [argv |-> WriteArgs(image), exited |-> out.run, out |-> out]
          /\ written' = WriteResult(out)
    /\ UNCHANGED image
    /\ UNCHANGED exceptImage

ImageNext == ImageWrite

----------------------------------------------------------------------------
(* Specifications: one per component, the other components at rest         *)

CodecRest == CodecInit

BuilderRest ==
    /\ env = [fs |-> [p \in Paths |-> "absent"], path |-> None]
    /\ builder = NoBuilder
    /\ launch = [type |-> "None"]

MachineRest ==
    /\ machine = MachineNew(CpuSetupNew(1), MemorySetupNew(512), FALSE)
    /\ pc = "idle"
    /\ cmd = <<>>
    /\ child = NoChild
    /\ status = NoStatus
    /\ hist = NoHist

ImageRest ==
    /\ image = NoImage
    /\ tool = NoTool
    /\ written = NoWritten

CodecOnly == CodecInit /\ BuilderRest /\ MachineRest /\ ImageRest
BuilderOnly == BuilderInit /\ CodecRest /\ MachineRest /\ ImageRest
MachineOnly == MachineInit /\ CodecRest /\ BuilderRest /\ ImageRest
ImageOnly == ImageInit /\ CodecRest /\ BuilderRest /\ MachineRest

SpecCodec == CodecOnly /\ [][CodecNext]_vars

SpecBuilder == BuilderOnly /\ [][BuilderNext]_vars

SpecMachine == MachineOnly /\ [][MachineNext]_vars

SpecImage == ImageOnly /\ [][ImageNext]_vars

\* a client drives one component at a time
Init == CodecOnly \/ BuilderOnly \/ MachineOnly \/ ImageOnly

Next ==
    \/ BuilderRest /\ MachineRest /\ ImageRest /\ CodecNext
    \/ CodecRest /\ MachineRest /\ ImageRest /\ BuilderNext
    \/ CodecRest /\ BuilderRest /\ ImageRest /\ MachineNext
    \/ CodecRest /\ BuilderRest /\ MachineRest /\ ImageNext

Spec == Init /\ [][Next]_vars

----------------------------------------------------------------------------
(* Properties                                                              *)

\* C1: Builder::start spawns the child with argv equal to the resolved
\* executable followed by all accumulated tokens, in accumulation order.
C1_ArgvIsExecutableThenTokens ==
    launch.type # "None" =>
        launch.argv = <<builder.executable>> \o builder.params

\* the directories of the search path, in listed order (none when unset)
ListedDirs(e) == IF IsSome(e.path) THEN Unwrap(e.path) ELSE <<>>

\* the join with the first listed directory holding the reference as a file
FirstFileMatches(e, ref) ==
    {Join(ListedDirs(e)[i], ref) : i \in
        {i \in 1..Len(ListedDirs(e)) :
            /\ IsFile(e.fs, Join(ListedDirs(e)[i], ref))
            /\ \A j \in 1..(i - 1) : ~IsFile(e.fs, Join(ListedDirs(e)[j], ref))}}

\* C2: Builder::new uses the reference verbatim if it is an existing file as
\* given; otherwise the result is the join with the first search-path
\* directory where the candidate is a file; a reference that exists only as
\* a directory is not accepted as the executable.
C2_ResolvesFileOrFirstMatch ==
    builder.type = "Builder" =>
        /\ IsFile(env.fs, builder.exec) => builder.executable = builder.exec
        /\ ~IsFile(env.fs, builder.exec) =>
              builder.executable \in FirstFileMatches(env, builder.exec)

\* C3: Builder::new fails with ExecutableNotFound carrying the original
\* reference, and produces no Builder, exactly when the reference is not an
\* existing file as given and no search-path directory holds it as a file.
C3_NotFoundExactlyWhenUnresolvable ==
    builder.type # "None" =>
        LET unresolvable ==
                /\ ~IsFile(env.fs, builder.exec)
                /\ FirstFileMatches(env, builder.exec) = {}
        IN  /\ unresolvable <=> builder.type = "Err"
            /\ builder.type = "Err" => builder.kind = "ExecutableNotFound"

\* C4: after a successful spawn, Machine::start waits the fixed delay and
\* polls the child exactly once; a child seen running gives success with
\* running = true; a child seen exited (whatever its exit status) gives a
\* Runtime error carrying the captured stderr text, or the generic Runtime
\* message; stderr is read only on the exited path; a failed spawn gives Io.
C4_DelayThenSinglePoll ==
    /\ hist.polls <= 1
    /\ hist.polls = 1 => hist.spawns = 1 /\ hist.slept = SleepMillis
    /\ hist.reads > 0 => hist.reads = 1 /\ hist.seen = "exited"
    /\ hist.seen = "exited" => child.state = "exited"
    /\ (pc = "done" /\ hist.spawns = 1) =>
          /\ hist.polls = 1
          /\ hist.seen = "running" => status = [type |-> "Ok", running |-> TRUE]
          /\ hist.seen = "exited" =>
                /\ hist.reads = 1
                /\ status.type = "Err" /\ status.kind = "Runtime"
                /\ status.msg \in {"QEMU exited: " \o child.stderr,
                                   "QEMU exited unexpectedly"}
    /\ hist.refused > 0 =>
          /\ pc = "done" /\ status = [type |-> "Err", kind |-> "Io"]
          /\ hist.spawns = 0 /\ hist.polls = 0 /\ hist.reads = 0

C4_ExitedWithStatusZeroSeen ==
    /\ pc = "done" /\ hist.spawns = 1 /\ hist.slept = SleepMillis
    /\ hist.polls = 1 /\ hist.seen = "exited" /\ child.code = 0
    /\ status = [type |-> "Err", kind |-> "Runtime",
                 msg |-> "QEMU exited: qemu: could not open tap"]

IsInvalidArgument(st) == st.type = "Err" /\ st.kind = "InvalidArgument"

Zero(o) == IsSome(o) /\ Unwrap(o) = 0

\* a numeric guard of the configuration fails
GuardFails(m) ==
    \/ Zero(m.cpu.cpus)
    \/ /\ IsNone(m.cpu.cpus)
       /\ Zero(m.cpu.sockets) \/ Zero(m.cpu.cores_per_sockets)
          \/ Zero(m.cpu.threads_per_cores)
    \/ m.mem.size = 0
    \/ /\ IsSome(m.mem.slots) /\ IsSome(m.mem.maxmem)
       /\ Zero(m.mem.slots) \/ Zero(m.mem.maxmem)

\* every numeric value is greater than 0 and every custom MAC is non-empty
AllValid(m) ==
    /\ \A o \in {m.cpu.cpus, m.cpu.sockets, m.cpu.cores_per_sockets,
                 m.cpu.threads_per_cores, m.mem.slots, m.mem.maxmem} : ~Zero(o)
    /\ m.mem.size > 0
    /\ \A i \in 1..Len(m.interfaces) : m.interfaces[i].custom_mac # Some("")

C6_WithFailsIffAllUnset ==
    call.op = "Processors::with" =>
        LET allUnset == IsNone(call.cores) /\ IsNone(call.threads)
                        /\ IsNone(call.sockets)
        IN  /\ allUnset <=> (value.type = "Err" /\ value.kind = "InvalidConfig")
            /\ ~allUnset =>
                  /\ value.type = "Processors"
                  /\ value.ncpus = None /\ value.maxcpus = None
                  /\ value.cores = call.cores /\ value.threads = call.threads
                  /\ value.sockets = call.sockets

C6_WithOnlyThreadsSet ==
    /\ call = [op |-> "Processors::with", cores |-> None, threads |-> Some(4),
               sockets |-> None]
    /\ value.type = "Processors" /\ value.threads = Some(4)

\* C7: rendering Processors::new(n) with max-CPU hint m always yields the two
\* tokens -smp and cpus=<n>,maxcpus=<m> (cpus first); without a hint the
\* second token is cpus=<n>.
C7_CpusThenMaxcpus ==
    (value.type = "Processors" /\ IsSome(value.ncpus) /\ rendered # NoTokens) =>
        rendered = <<"-smp",
                     "cpus=" \o ToString(Unwrap(value.ncpus))
                     \o (IF IsSome(value.maxcpus)
                         THEN ",maxcpus=" \o ToString(Unwrap(value.maxcpus))
                         ELSE "")>>

FormatKeyword ==
    [Raw |-> "raw", QCow |-> "qcow", QCow2 |-> "qcow2", Vmdk |-> "vmdk",
     Vdi |-> "vdi", Vhdx |-> "vhdx", Vpc |-> "vpc"]
DriveMediaKeyword == [CDRom |-> "cdrom", Disk |-> "disk"]
VgaKeyword ==
    [None |-> "none", Cirrus |-> "cirrus", Std |-> "std", VMWare |-> "vmware",
     Qxl |-> "qxl", Tcx |-> "tcx", Cg3 |-> "cg3", Virtio |-> "virtio"]

\* C9: Image::write invokes the tool with exactly create -f <format> <path>
\* <size>, returns once it has exited, and maps the outcome: exit status 0
\* gives Ok, any non-zero exit gives an Other error whose message is the
\* captured standard output, an OS-level failure to run the tool gives Io.
C9_WriteOutcome ==
    written.type # "None" =>
        /\ tool.argv = <<"qemu-img", "create", "-f", FormatKeyword[image.format],
                         image.path, ToString(image.size)>>
        /\ ~tool.out.run => written = [type |-> "Err", kind |-> "Io"]
        /\ tool.out.run =>
              /\ tool.exited
              /\ tool.out.code = 0 => written = [type |-> "Ok"]
              /\ tool.out.code # 0 =>
                    /\ written.type = "Err" /\ written.kind = "Other"
                    /\ tool.out.stdout.utf8 => written.msg = tool.out.stdout.text

\* C10: every enumerated value renders to the tool's lowercase keyword
\* (Format, DriveMedia, and Vga after the -vga flag), and the mapping is
\* injective within each enumeration.
C10_EnumKeywords ==
    /\ value.type = "Format" => rendered = <<FormatKeyword[value.v]>>
    /\ value.type = "DriveMedia" => rendered = <<DriveMediaKeyword[value.v]>>
    /\ value.type = "Vga" => rendered = <<"-vga", VgaKeyword[value.v]>>
    /\ \A f, g \in Formats : FormatToString(f) = FormatToString(g) => f = g
    /\ \A m, n \in DriveMedias :
          DriveMediaToString(m) = DriveMediaToString(n) => m = n
    /\ \A v, w \in VgaKinds : VgaIntoArguments(v) = VgaIntoArguments(w) => v = w

C10_QCow2Rendered ==
    value = [type |-> "Format", v |-> "QCow2"] /\ rendered = <<"qcow2">>

\* a call of Machine::start begins and runs up to the spawn or to the
\* first failed guard
StartCalled == hist'.starts = hist.starts + 1

\* the four tokens the tool's syntax asks for one TAP interface
InterfaceTokens(iface) ==
    <<"-netdev", "tap,id=" \o iface.name \o ",ifname=" \o iface.name,
      "-device",
      IF IsSome(iface.custom_mac)
      THEN "virtio-net,netdev=" \o iface.name \o ",mac=" \o Unwrap(iface.custom_mac)
      ELSE "virtio-net,netdev=" \o iface.name>>

\* C11: a successful argument assembly in Machine::start holds, for each
\* interface in the order it was added, the tokens -netdev,
\* tap,id=<name>,ifname=<name>, -device, virtio-net,netdev=<name>, with
\* ,mac=<addr> appended iff a custom MAC is set, the netdev pair before the
\* device pair; an empty custom MAC yields InvalidArgument instead.
C11_InterfacesInOrder ==
    [][StartCalled =>
        LET n == Len(machine.interfaces)
            base == Len(cmd') - 4 * n
        IN  /\ ~IsInvalidArgument(status') =>
                  /\ pc' = "spawn" /\ base >= 1
                  /\ \A i \in 1..n :
                        SubSeq(cmd', base + 4 * (i - 1) + 1, base + 4 * i)
                            = InterfaceTokens(machine.interfaces[i])
                  /\ \A j \in 1..base : cmd'[j] \notin {"-netdev", "-device"}
            /\ (\E i \in 1..n : machine.interfaces[i].custom_mac = Some("")) =>
                  IsInvalidArgument(status') /\ pc' = "done"
      ]_vars

C11_TwoInterfacesAssembled ==
    /\ pc = "spawn"
    /\ machine.interfaces = <<TapInterfaceWithMacAddr("tamer1", "52:54:01:02:03:04"),
                              TapInterfaceNew("tamer0")>>
    /\ SubSeq(cmd, Len(cmd) - 7, Len(cmd))
         = <<"-netdev", "tap,id=tamer1,ifname=tamer1",
             "-device", "virtio-net,netdev=tamer1,mac=52:54:01:02:03:04",
             "-netdev", "tap,id=tamer0,ifname=tamer0",
             "-device", "virtio-net,netdev=tamer0">>

\* token i of argv carries the drive's file path and media keyword, in one
\* of the forms the tool accepts: a -drive value naming both, or the path
\* after the flag named by the media keyword
CarriesDrive(argv, i, d) ==
    LET media == DriveMediaKeyword[d.media]
    IN  \/ argv[i] \in {"file=" \o d.file \o ",media=" \o media,
                        "media=" \o media \o ",file=" \o d.file}
        \/ i > 1 /\ argv[i] = d.file /\ argv[i - 1] = "-" \o media

\* C12: every Drive attached with add_drive is rendered into the argv passed
\* to the spawned emulator: the argv holds a fragment carrying each drive's
\* file path and media keyword.
C12_DrivesInArgv ==
    (pc \in {"sleep", "poll", "read"} /\ child.state # "none") =>
        \A k \in 1..Len(machine.drives) :
            \E i \in 1..Len(child.argv) :
                CarriesDrive(child.argv, i, machine.drives[k])

\* C13: every operation that can fail reports the failure as a returned
\* typed error and never aborts: for every outcome of the external tool or
\* child process, Image::write, Machine::start, Builder::new and
\* Builder::start return either a success value or an error value.
C13_NeverAborts ==
    /\ written.type \in {"None", "Ok", "Err"}
    /\ status.type \in {"None", "Ok", "Err"}
    /\ builder.type \in {"None", "Builder", "Err"}
    /\ launch.type \in {"None", "Instance", "Err"}

\* C14: Machine::start validates before it spawns: whenever it returns
\* InvalidArgument no child process has been spawned or attempted, the
\* Machine's configuration is unchanged by the call, and a later start
\* meets the same failed guard.
C14_ValidationBeforeSpawn ==
    /\ [](IsInvalidArgument(status) =>
            /\ pc = "done" /\ child = NoChild
            /\ hist.spawns = 0 /\ hist.refused = 0
            /\ hist.slept = 0 /\ hist.polls = 0 /\ hist.reads = 0)
    /\ [][StartCalled =>
            /\ machine' = machine
            /\ IsInvalidArgument(status) => status' = status
         ]_vars

C14_RejectedTwice ==
    /\ hist.starts = 2 /\ pc = "done" /\ IsInvalidArgument(status)
    /\ machine.interfaces = <<TapInterfaceNew("tamer0"),
                              TapInterfaceWithMacAddr("tamer2", "")>>
    /\ status.msg = "Invalid custom MAC address"
    /\ child = NoChild /\ hist.spawns = 0

\* the key=value pairs a Processors value must render: cpus alone of the
\* topology keys when a flat count is set, otherwise those of cores,
\* threads, sockets that are set; maxcpus iff the hint is set
ExpectedPairs(p) ==
    (IF IsSome(p.ncpus) THEN {"cpus=" \o ToString(Unwrap(p.ncpus))}
     ELSE {"cores=" \o ToString(c) : c \in p.cores}
          \cup {"threads=" \o ToString(t) : t \in p.threads}
          \cup {"sockets=" \o ToString(k) : k \in p.sockets})
    \cup {"maxcpus=" \o ToString(m) : m \in p.maxcpus}

\* all ways of listing the elements of S once each
Arrangements(S) ==
    {a \in [1..Cardinality(S) -> S] : \A x \in S : \E i \in 1..Cardinality(S) : a[i] = x}

\* items separated by single commas, none before the first or after the last
RECURSIVE CommaJoined(_)
CommaJoined(items) ==
    IF Len(items) = 1 THEN items[1]
    ELSE CommaJoined(SubSeq(items, 1, Len(items) - 1)) \o "," \o items[Len(items)]

\* C15: every Processors value from the public constructors renders to -smp
\* followed by one non-empty token that is a comma-joined list of key=value
\* pairs with no leading or trailing comma, holding cpus= and no topology
\* key when a flat count is set, otherwise exactly the set ones of cores=,
\* threads=, sockets= (at least one) and no cpus=, and maxcpus= iff the
\* hint is set.
C15_ProcessorsWellFormed ==
    (value.type = "Processors" /\ rendered # NoTokens) =>
        /\ Len(rendered) = 2 /\ rendered[1] = "-smp" /\ rendered[2] # ""
        /\ ExpectedPairs(value) # {}
        /\ IsNone(value.ncpus) =>
              IsSome(value.cores) \/ IsSome(value.threads) \/ IsSome(value.sockets)
        /\ \E a \in Arrangements(ExpectedPairs(value)) :
              rendered[2] = CommaJoined(a)

C15_BreakdownWithHintRendered ==
    /\ value.type = "Processors" /\ IsNone(value.ncpus)
    /\ value.cores = Some(4) /\ value.threads = None /\ value.sockets = Some(1)
    /\ value.maxcpus = Some(255)
    /\ rendered = <<"-smp", "sockets=1,maxcpus=255,cores=4">>

====
